---- MODULE Spec2Model ----
(***************************************************************************)
(* Claim-level hallucination detection                                     *)
(* (src/src/detection/detection_module.py, HallucinationDetector), the     *)
(* pipeline that calls it (src/src/detection/main.py), the evidence        *)
(* retriever (src/src/retrieval/retrieval_module.py), the generator        *)
(* (src/src/detection/gemini_integration.py, GeminiLLM), the API handler   *)
(* (src/Frontend Code/api.py) and the correction log                       *)
(* (src/src/correction/correction_module.py).                              *)
(*                                                                         *)
(* Specifications.  Spec: one detect_hallucination call.  SpecPipeline:    *)
(* one generate_and_detect request.  SpecRepeat: repeated calls on one     *)
(* detector.  SpecGemini, SpecGeminiFair: construction of the pipeline and *)
(* generate_answer calls.  SpecApi: requests to /detect_hallucination and  *)
(* the rows they log.  SpecRetrieval: an EvidenceRetriever and one         *)
(* retrieve_evidence call.  SpecSingleton: calls of get_gemini_llm and of  *)
(* the module-level generate_answer.                                       *)
(*                                                                         *)
(* Texts.  A string is a sequence of fragments: 0 is a run of whitespace,  *)
(* a positive number is one sentence (the number names its wording).       *)
(* <<>> is the empty string, <<0>> a whitespace-only string.               *)
(*                                                                         *)
(* Numbers.  Probabilities, similarities and thresholds are fixed-point    *)
(* hundredths: 92 is 0.92, One = 100 is 1.0, -20 is -0.2.                  *)
(*                                                                         *)
(* Models.  The NLI classifier and the embedding model are loaded once in  *)
(* the constructor and are deterministic: nli_model and similarity_model   *)
(* are functions of the (evidence sentence, claim) pair, chosen in Init    *)
(* and never changed.                                                      *)
(***************************************************************************)
EXTENDS Integers, Sequences, FiniteSets, TLC

\* ------------------------------------------------------------------ bounds
\* Largest input of a call: the fragments of the answer, plus the evidence
\* documents, plus the fragments of the evidence documents.
MaxInputSize == 5

\* --------------------------------------------------------- program constants
One == 100
similarity_threshold == 50
contradiction_threshold == 98
entailment_threshold == 92
CONTRADICTION_INDEX == 0
ENTAILMENT_INDEX == 2

\* ------------------------------------------------------------- vocabularies
\* Wordings of answer sentences; ERR is a sentence that begins "Error:".
ClaimIds == {1, 2}
ERR == 3
\* Wordings of evidence sentences.
EvidIds == {1, 2}

VARIABLES
    caller,                  \* "direct": detect_hallucination is called as is;
                             \* "pipeline": through generate_and_detect
    llm_response,            \* what the generator returns for the question
    nli_model,               \* (evidence, claim) -> softmax row (0..2 -> prob)
    similarity_model,        \* (evidence, claim) -> cosine similarity
    pc,                      \* control position
    answer,                  \* detect_hallucination's argument
    evidence_docs,           \* detect_hallucination's argument
    answer_claims,           \* sent_tokenize(answer)
    all_evidence_sentences,  \* the evidence pool
    claim_idx,               \* position of the for loop in answer_claims
    all_probs,               \* softmax rows of the current claim's batch
    similarity_scores,       \* cosine similarities of the current claim
    result,                  \* the DetectionResult returned
    pipeline_result,         \* the dict generate_and_detect returns
    nli_calls,               \* log: one entry per NLI batch inference
    sim_calls,               \* log: one entry per similarity scoring
    tokenize_calls,          \* log: texts handed to sent_tokenize
    generator_calls,         \* log: calls of gemini_llm.generate_answer made
                             \* by generate_and_detect
    detect_calls,            \* log: calls of detect_hallucination
    \* --- construction, and GeminiLLM (gemini_integration.py)
    pipe_state,              \* HallucinationAnalysisPipeline(): "unbuilt",
                             \* "gemini_ready", "built", "raised"
    gem_state,               \* GeminiLLM(): "unbuilt", "built", "raised"
    gem_load_error,          \* what went wrong in _initialize_llm
    gem_model,               \* self.model: "none" or "set"
    api_working,             \* self.api_working
    det_state,               \* HallucinationDetector(): "unbuilt", "built", "raised"
    det_load_error,          \* what went wrong in _load_models
    gem_pc,                  \* generate_answer: "idle" or in its "loop"
    max_retries,             \* generate_answer's argument
    attempt,                 \* position of the for loop
    outcomes,                \* log: how each model.invoke of the call ended
    waits,                   \* log: the time.sleep durations of the call
    gen_return,              \* what the last generate_answer call returned
    gen_calls,               \* generate_answer calls made
    last_exception,          \* the exception the attempt loop caught last, if any
    \* --- the API handler (api.py) and the correction module
    api_pc,                  \* "idle", or the call the handler makes next
    data,                    \* request.get_json()
    detection_result,        \* what pipeline.generate_and_detect returned
    correction_result,       \* what correct_and_regenerate computed
    response,                \* what the client receives for the request
    api_calls,               \* log: the collaborators called for the request
    log_failure,             \* the persistence failure of the request, if any
    rows_before,             \* rows of logs when the request arrived
    requests,                \* requests received
    logs,                    \* the rows of table logs, oldest first
    table_exists,            \* initialize_database has created the table
    corrections_logged,      \* corrections whose logging raised no error
    \* --- repeated detection on one detector instance
    history,                 \* the calls that returned: arguments and result
    calls_made,              \* detect_hallucination calls that returned
    \* --- EvidenceRetriever and one retrieve_evidence call
    ret_pc,                  \* where the retriever and its call stand
    max_evidence_docs,       \* self.max_evidence_docs
    retriever_similarity_threshold,  \* self.similarity_threshold of the retriever
    lookup_failed,           \* retrieve_evidence_documents raised
    unique_docs,             \* the documents found, without repetitions
    all_passages,            \* the passages cut from unique_docs, in order
    similarity_failed,       \* encode or cos_sim raised in _calculate_similarity
    passage_similarity,      \* the similarity of each passage to the question
    final_evidence,          \* the list retrieve_evidence returns
    \* --- the module-level generator instance of gemini_integration.py
    gemini_llm_instance,     \* _gemini_llm_instance: 0 is None, else the instance
    constructions,           \* GeminiLLM() constructions by get_gemini_llm
    instances_returned,      \* what the get_gemini_llm calls returned, in order
    module_calls             \* calls of get_gemini_llm and generate_answer(question)

modelVars == <<nli_model, similarity_model>>
argVars == <<caller, llm_response, answer, evidence_docs>>
localVars == <<answer_claims, all_evidence_sentences, claim_idx, all_probs, similarity_scores>>
logVars == <<nli_calls, sim_calls, tokenize_calls>>
countVars == <<generator_calls, detect_calls>>
\* The variables of the other components (generator, API, correction log).
buildVars == <<pipe_state, gem_state, gem_load_error, gem_model, api_working,
               det_state, det_load_error>>
gemVars == <<gem_pc, max_retries, attempt, outcomes, waits, gen_return, gen_calls,
             last_exception>>
apiVars == <<api_pc, data, detection_result, correction_result, response, api_calls,
             log_failure, rows_before, requests, logs, table_exists, corrections_logged>>
repVars == <<history, calls_made>>
retVars == <<ret_pc, max_evidence_docs, retriever_similarity_threshold, lookup_failed,
             unique_docs, all_passages, similarity_failed, passage_similarity,
             final_evidence>>
insVars == <<gemini_llm_instance, constructions, instances_returned, module_calls>>
otherVars == <<retVars, insVars>>
extVars == <<buildVars, gemVars, apiVars, repVars, otherVars>>
detVars == <<modelVars, argVars, localVars, logVars, pc, result, pipeline_result, countVars>>
vars == <<detVars, extVars>>

\* ------------------------------------------------------------------- texts
Texts(ids, n) == UNION {[1..k -> ids \cup {0}] : k \in 0..n}

RECURSIVE lstrip(_)
lstrip(t) == IF t # <<>> /\ Head(t) = 0 THEN lstrip(Tail(t)) ELSE t

RECURSIVE rstrip(_)
rstrip(t) == IF t # <<>> /\ t[Len(t)] = 0 THEN rstrip(SubSeq(t, 1, Len(t) - 1)) ELSE t

\* str.strip(): leading and trailing whitespace removed.
strip(t) == rstrip(lstrip(t))

\* str.startswith("Error:")
\* Faulty variant: the prefix is never recognised.
startswith_ErrorNever(t) == FALSE
startswith_Error(t) == t # <<>> /\ t[1] = ERR

\* nltk's sent_tokenize: the sentences of a text, in order.
sent_tokenize(t) == SelectSeq(t, LAMBDA f : f # 0)

\* [sent for doc in docs for sent in sent_tokenize(doc) if sent.strip()]
RECURSIVE EvidenceSentences(_)
EvidenceSentences(docs) ==
    IF docs = <<>> THEN <<>>
    ELSE SelectSeq(sent_tokenize(Head(docs)), LAMBDA sent : strip(<<sent>>) # <<>>)
         \o EvidenceSentences(Tail(docs))

\* ----------------------------------------------------------------- tensors
Range(s) == {s[k] : k \in DOMAIN s}

\* torch.max(x): the largest element (x is never empty where this is used).
TensorMax(x) == CHOOSE m \in Range(x) : \A v \in Range(x) : v <= m

\* The index torch.max(x, dim=0) / torch.argmax(x) return: the first maximum.
\* Faulty variant: the index of the first element, whatever its value.
TensorArgMaxFirstElement(x) == 1
TensorArgMax(x) == CHOOSE k \in DOMAIN x : x[k] = TensorMax(x) /\ \A j \in 1..(k - 1) : x[j] # x[k]

\* all_probs[:, col]
Column(probs, col) == [k \in DOMAIN probs |-> probs[k][col]]

\* ------------------------------------------------------------ the detector
DetectionResult(is_hallucination, confidence_score, detection_method, raw_answer, docs, details) ==
    [is_hallucination |-> is_hallucination,
     confidence_score |-> confidence_score,
     detection_method |-> detection_method,
     raw_answer |-> raw_answer,
     evidence_docs |-> docs,
     details |-> details]

NoResult == DetectionResult(FALSE, 0, "none", <<>>, <<>>, [reason |-> "none"])

\* nli_pairs = [(evidence_sent, claim) for evidence_sent in all_evidence_sentences]
\* Faulty variant: only the first evidence sentence is paired with the claim.
NliPairsFirstSentence(claim, pool) == [k \in DOMAIN pool \cap {1} |-> <<pool[k], claim>>]
NliPairs(claim, pool) == [k \in DOMAIN pool |-> <<pool[k], claim>>]

\* tokenizer + model + softmax over one batch of pairs
NliBatch(pairs) == [k \in DOMAIN pairs |-> nli_model[pairs[k]]]

\* encode + pytorch_cos_sim of the claim against every evidence sentence
CosSim(claim, pool) == [k \in DOMAIN pool |-> similarity_model[<<pool[k], claim>>]]

\* max_entailment_score.item() > self.entailment_threshold
\* Faulty variant: the entailment column taken to be the neutral one.
EntailmentFiresNeutralColumn(probs) ==
    TensorMax(Column(probs, 1)) > entailment_threshold
\* Faulty variant: the comparison is not strict.
EntailmentFiresAtThreshold(probs) ==
    TensorMax(Column(probs, ENTAILMENT_INDEX)) >= entailment_threshold
EntailmentFires(probs) ==
    TensorMax(Column(probs, ENTAILMENT_INDEX)) > entailment_threshold

\* max_contradiction_score.item() > self.contradiction_threshold
\* Faulty variant: the comparison is not strict.
ContradictionFiresAtThreshold(probs) ==
    TensorMax(Column(probs, CONTRADICTION_INDEX)) >= contradiction_threshold
ContradictionFires(probs) ==
    TensorMax(Column(probs, CONTRADICTION_INDEX)) > contradiction_threshold

\* max_similarity_score < self.similarity_threshold
\* Faulty variants: the comparison is not strict; the check is missing.
LowSimilarityAtThreshold(scores) == TensorMax(scores) <= similarity_threshold
LowSimilarityNever(scores) == FALSE
LowSimilarity(scores) == TensorMax(scores) < similarity_threshold

ContradictionResult(claim, probs) ==
    LET contradiction_probs == Column(probs, CONTRADICTION_INDEX)
        max_contradiction_score == TensorMax(contradiction_probs)
        max_contradiction_idx == TensorArgMax(contradiction_probs)
    IN  DetectionResult(TRUE, max_contradiction_score, "contradiction", answer, evidence_docs,
            [problem_claim |-> claim,
             contradictory_evidence |-> all_evidence_sentences[max_contradiction_idx],
             contradiction_score |-> max_contradiction_score])

\* Faulty variant: the similarity itself reported as the confidence.
LowSimilarityResultScoreAsConfidence(claim, scores) ==
    LET max_similarity_score == TensorMax(scores)
    IN  DetectionResult(TRUE, max_similarity_score, "low_similarity", answer, evidence_docs,
            [problem_claim |-> claim,
             reason |-> "Low similarity to all evidence.",
             max_similarity_score |-> max_similarity_score,
             closest_evidence |-> all_evidence_sentences[TensorArgMax(scores)]])
LowSimilarityResult(claim, scores) ==
    LET max_similarity_score == TensorMax(scores)
    IN  DetectionResult(TRUE, One - max_similarity_score, "low_similarity", answer, evidence_docs,
            [problem_claim |-> claim,
             reason |-> "Low similarity to all evidence.",
             max_similarity_score |-> max_similarity_score,
             closest_evidence |-> all_evidence_sentences[TensorArgMax(scores)]])

\* not answer.strip()
\* Faulty variant: the answer is not stripped first.
EmptyAnswerMissingStrip(a) == a = <<>>
EmptyAnswer(a) == strip(a) = <<>>

\* not evidence_docs
NoEvidenceDocs(docs) == docs = <<>>

\* not all_evidence_sentences
\* Faulty variant: the empty pool is not checked for.
NoEvidenceTextUnchecked(pool) == FALSE
NoEvidenceText(pool) == pool = <<>>

EmptyAnswerResult ==
    DetectionResult(FALSE, One, "empty_answer", answer, evidence_docs,
        [reason |-> "Answer was empty."])

\* Faulty variant: missing evidence reported as not a hallucination.
NoEvidenceDocsResultNotHallucination ==
    DetectionResult(FALSE, One, "no_evidence", answer, <<>>,
        [reason |-> "No evidence documents were provided."])
NoEvidenceDocsResult ==
    DetectionResult(TRUE, One, "no_evidence", answer, <<>>,
        [reason |-> "No evidence documents were provided."])

\* Faulty variant: a method name outside the enumeration.
NoEvidenceTextResultOwnMethod ==
    DetectionResult(TRUE, One, "no_evidence_text", answer, evidence_docs,
        [reason |-> "Evidence documents contain no text."])
NoEvidenceTextResult ==
    DetectionResult(TRUE, One, "no_evidence", answer, evidence_docs,
        [reason |-> "Evidence documents contain no text."])

\* Faulty variant: the stripped answer is reported as raw_answer.
VerifiedResultStrippedAnswer ==
    DetectionResult(FALSE, One, "verified", strip(answer), evidence_docs,
        [reason |-> "All claims in the answer were successfully verified against the evidence."])
VerifiedResult ==
    DetectionResult(FALSE, One, "verified", answer, evidence_docs,
        [reason |-> "All claims in the answer were successfully verified against the evidence."])

\* Lines 99-109: the checks and the segmentation before the loop.
InitialChecks ==
    /\ pc = "call"
    /\ IF EmptyAnswer(answer)
       THEN /\ result' = EmptyAnswerResult
            /\ pc' = "done"
            /\ UNCHANGED <<answer_claims, all_evidence_sentences, tokenize_calls>>
       ELSE IF NoEvidenceDocs(evidence_docs)
       THEN /\ result' = NoEvidenceDocsResult
            /\ pc' = "done"
            /\ UNCHANGED <<answer_claims, all_evidence_sentences, tokenize_calls>>
       ELSE /\ answer_claims' = sent_tokenize(answer)
            /\ all_evidence_sentences' = EvidenceSentences(evidence_docs)
            /\ tokenize_calls' = tokenize_calls \o <<answer>> \o evidence_docs
            /\ IF NoEvidenceText(all_evidence_sentences')
               THEN /\ result' = NoEvidenceTextResult
                    /\ pc' = "done"
               ELSE /\ pc' = "loop"
                    /\ UNCHANGED result
    /\ detect_calls' = detect_calls + 1
    /\ UNCHANGED <<modelVars, argVars, claim_idx, all_probs, similarity_scores,
                   nli_calls, sim_calls, pipeline_result, generator_calls, extVars>>

\* Lines 111-139: one claim's batched NLI inference, the entailment check and
\* the contradiction check.
NliCheck ==
    /\ pc = "loop"
    /\ claim_idx <= Len(answer_claims)
    /\ LET claim == answer_claims[claim_idx]
           nli_pairs == NliPairs(claim, all_evidence_sentences)
       IN  IF nli_pairs = <<>>
           THEN /\ claim_idx' = claim_idx + 1
                /\ UNCHANGED <<pc, all_probs, result, nli_calls>>
           ELSE /\ nli_calls' = Append(nli_calls, [claim_idx |-> claim_idx, pairs |-> nli_pairs])
                /\ all_probs' = NliBatch(nli_pairs)
                /\ IF EntailmentFires(all_probs')
                   THEN /\ claim_idx' = claim_idx + 1
                        /\ UNCHANGED <<pc, result>>
                   ELSE IF ContradictionFires(all_probs')
                   THEN /\ result' = ContradictionResult(claim, all_probs')
                        /\ pc' = "done"
                        /\ UNCHANGED claim_idx
                   ELSE /\ pc' = "similarity"
                        /\ UNCHANGED <<claim_idx, result>>
    /\ UNCHANGED <<modelVars, argVars, answer_claims, all_evidence_sentences,
                   similarity_scores, sim_calls, tokenize_calls, pipeline_result,
                   countVars, extVars>>

\* Lines 141-158: the similarity fallback of the current claim.
SimilarityFallback ==
    /\ pc = "similarity"
    /\ LET claim == answer_claims[claim_idx]
       IN  /\ sim_calls' = Append(sim_calls, [claim_idx |-> claim_idx, claim |-> claim,
                                              evidence |-> all_evidence_sentences])
           /\ similarity_scores' = CosSim(claim, all_evidence_sentences)
           /\ IF LowSimilarity(similarity_scores')
              THEN /\ result' = LowSimilarityResult(claim, similarity_scores')
                   /\ pc' = "done"
                   /\ UNCHANGED claim_idx
              ELSE /\ claim_idx' = claim_idx + 1
                   /\ pc' = "loop"
                   /\ UNCHANGED result
    /\ UNCHANGED <<modelVars, argVars, answer_claims, all_evidence_sentences,
                   all_probs, nli_calls, tokenize_calls, pipeline_result,
                   countVars, extVars>>

\* Lines 160-162: the loop ran out of claims.
Verified ==
    /\ pc = "loop"
    /\ claim_idx > Len(answer_claims)
    /\ result' = VerifiedResult
    /\ pc' = "done"
    /\ UNCHANGED <<modelVars, argVars, localVars, logVars, pipeline_result,
                   countVars, extVars>>

\* ------------------------------------------------------------ the pipeline
NoPipelineResult == [detection_method |-> "none"]

\* main.py 53-66: generate the answer; an "Error:" answer ends the request.
Generate ==
    /\ pc = "generate"
    /\ generator_calls' = generator_calls + 1
    /\ answer' = llm_response
    /\ IF startswith_Error(llm_response)
       THEN /\ pipeline_result' = [question |-> "question",
                                   raw_answer |-> llm_response,
                                   is_hallucination |-> TRUE,
                                   confidence_score |-> One,
                                   detection_method |-> "generation_error",
                                   details |-> [error |-> llm_response]]
            /\ pc' = "pipeline_done"
       ELSE /\ pc' = "call"
            /\ UNCHANGED pipeline_result
    /\ UNCHANGED <<modelVars, caller, llm_response, evidence_docs, localVars, logVars, result,
                   detect_calls, extVars>>

\* main.py 70-87: the detector has returned; to_dict plus the question.
PipelineReturn ==
    /\ pc = "done"
    /\ caller = "pipeline"
    /\ pipeline_result' = [question |-> "question",
                           raw_answer |-> result.raw_answer,
                           is_hallucination |-> result.is_hallucination,
                           confidence_score |-> result.confidence_score,
                           detection_method |-> result.detection_method,
                           evidence_docs |-> result.evidence_docs,
                           details |-> result.details]
    /\ pc' = "pipeline_done"
    /\ UNCHANGED <<modelVars, argVars, localVars, logVars, result, countVars, extVars>>

\* generate_answer has not returned anything yet.
NoReturn == [kind |-> "none", text |-> <<>>]

\* Nothing constructed yet.
BuildIdle ==
    /\ pipe_state = "unbuilt"
    /\ gem_state = "unbuilt"
    /\ gem_load_error = "none"
    /\ gem_model = "none"
    /\ api_working = FALSE
    /\ det_state = "unbuilt"
    /\ det_load_error = "none"

\* No generate_answer call under way.
GeminiIdle ==
    /\ gem_pc = "idle"
    /\ max_retries = 0
    /\ attempt = 0
    /\ outcomes = <<>>
    /\ waits = <<>>
    /\ gen_return = NoReturn
    /\ gen_calls = 0
    /\ last_exception = "none"

\* The handler's variables between requests.
NoDetection ==
    [returned |-> FALSE, raw_answer |-> <<>>, is_hallucination |-> FALSE, confidence_score |-> 0]
NoCorrection ==
    [returned |-> FALSE, CorrectedAnswer |-> <<>>, Citations |-> <<>>, ConfidenceScore |-> 0]
NoResponse == [status |-> 0, json |-> FALSE, body |-> [none |-> TRUE]]

\* No request received, nothing logged, the table not created.
ApiIdle ==
    /\ api_pc = "idle"
    /\ data = [type |-> "none", truthy |-> FALSE, has_question |-> FALSE]
    /\ detection_result = NoDetection
    /\ correction_result = NoCorrection
    /\ response = NoResponse
    /\ api_calls = <<>>
    /\ log_failure = "none"
    /\ rows_before = 0
    /\ requests = 0
    /\ logs = <<>>
    /\ table_exists = FALSE
    /\ corrections_logged = 0

\* No call has returned.
RepeatIdle ==
    /\ history = {}
    /\ calls_made = 0

\* No retriever constructed.
RetrievalIdle ==
    /\ ret_pc = "unbuilt"
    /\ max_evidence_docs = 0
    /\ retriever_similarity_threshold = 0
    /\ lookup_failed = FALSE
    /\ unique_docs = <<>>
    /\ all_passages = <<>>
    /\ similarity_failed = FALSE
    /\ passage_similarity = <<>>
    /\ final_evidence = <<>>

\* _gemini_llm_instance = None
SingletonIdle ==
    /\ gemini_llm_instance = 0
    /\ constructions = 0
    /\ instances_returned = <<>>
    /\ module_calls = 0

\* The other components, not in use.
ExtIdle ==
    BuildIdle /\ GeminiIdle /\ ApiIdle /\ RepeatIdle /\ RetrievalIdle /\ SingletonIdle

\* ------------------------------------------------------------------- inputs
RECURSIVE SumLen(_)
SumLen(docs) == IF docs = <<>> THEN 0 ELSE Len(Head(docs)) + SumLen(Tail(docs))

EvidenceSize(docs) == Len(docs) + SumLen(docs)

AnswerTexts == Texts(ClaimIds, MaxInputSize) \cup {<<ERR>>}

EvidenceLists(size) ==
    UNION {{docs \in [1..k -> Texts(EvidIds, size - k)] : EvidenceSize(docs) <= size} : k \in 0..size}

\* What the two models may say of one (evidence, claim) pair: the softmax row
\* (contradiction, neutral, entailment) and the cosine similarity.
Row(c, n, e) == [col \in 0..2 |-> IF col = 0 THEN c ELSE IF col = 1 THEN n ELSE e]

Profiles ==
    {[nli |-> Row(0, 7, 93),  sim |-> -20],
     [nli |-> Row(99, 1, 0),  sim |-> 80],
     [nli |-> Row(100, 0, 0), sim |-> 40],
     [nli |-> Row(0, 8, 92),  sim |-> 40],
     [nli |-> Row(98, 2, 0),  sim |-> -20],
     [nli |-> Row(0, 100, 0), sim |-> 50]}

DefaultProfile == [nli |-> Row(0, 100, 0), sim |-> 50]

AllPairs == EvidIds \X (ClaimIds \cup {ERR})

\* The pairs the call can score; the models' values elsewhere cannot be observed.
RelevantPairs(a, docs) == Range(EvidenceSentences(docs)) \X Range(sent_tokenize(a))

InitCall(who) ==
    \E a \in AnswerTexts : \E docs \in EvidenceLists(MaxInputSize - Len(a)) :
      \E prof \in [RelevantPairs(a, docs) -> Profiles] :
        /\ caller = who
        /\ nli_model = [p \in AllPairs |->
                          IF p \in DOMAIN prof THEN prof[p].nli ELSE DefaultProfile.nli]
        /\ similarity_model = [p \in AllPairs |->
                          IF p \in DOMAIN prof THEN prof[p].sim ELSE DefaultProfile.sim]
        /\ IF who = "pipeline"
           THEN llm_response = strip(a) /\ answer = <<>> /\ pc = "generate"
           ELSE llm_response = <<>> /\ answer = a /\ pc = "call"
        /\ evidence_docs = docs
        /\ answer_claims = <<>>
        /\ all_evidence_sentences = <<>>
        /\ claim_idx = 1
        /\ all_probs = <<>>
        /\ similarity_scores = <<>>
        /\ result = NoResult
        /\ pipeline_result = NoPipelineResult
        /\ nli_calls = <<>>
        /\ sim_calls = <<>>
        /\ tokenize_calls = <<>>
        /\ generator_calls = 0
        /\ detect_calls = 0
        /\ ExtIdle

\* One call of detect_hallucination on a constructed detector.
Init == InitCall("direct")

Next ==
    \/ InitialChecks
    \/ NliCheck
    \/ SimilarityFallback
    \/ Verified

Spec == Init /\ [][Next]_vars

\* One request, either straight to the detector or through generate_and_detect.
InitPipeline == InitCall("direct") \/ InitCall("pipeline")

NextPipeline ==
    \/ InitialChecks
    \/ NliCheck
    \/ SimilarityFallback
    \/ Verified
    \/ Generate
    \/ PipelineReturn

SpecPipeline == InitPipeline /\ [][NextPipeline]_vars

\* ------------------------------------------------------------------ claims
\* What the loaded models say of each claim of the answer against the evidence
\* of the call, read off the models and the arguments (not off the detector's
\* locals): the three maxima, and what they mean for the claim.
Claims == sent_tokenize(answer)
Pool == Range(EvidenceSentences(evidence_docs))
SetMax(S) == CHOOSE m \in S : \A v \in S : v <= m

Judge(c, pool) ==
    LET ent == SetMax({nli_model[<<e, c>>][2] : e \in pool})
        con == SetMax({nli_model[<<e, c>>][0] : e \in pool})
        sim == SetMax({similarity_model[<<e, c>>] : e \in pool})
    IN  [ent |-> ent, con |-> con, sim |-> sim,
         class |-> IF ent > entailment_threshold THEN "entailed"
                   ELSE IF con > contradiction_threshold THEN "contradicted"
                   ELSE IF sim < similarity_threshold THEN "unsupported"
                   ELSE "supported"]

\* One judgement per claim position; no positions when there is no evidence text.
Judgements ==
    LET claims == Claims
        pool == Pool
    IN  IF pool = {} THEN <<>> ELSE [k \in DOMAIN claims |-> Judge(claims[k], pool)]

Failing == {"contradicted", "unsupported"}
NliCalled(k) == \E n \in DOMAIN nli_calls : nli_calls[n].claim_idx = k
SimCalled(k) == \E n \in DOMAIN sim_calls : sim_calls[n].claim_idx = k
Returned == pc = "done"
ClaimVerdict == Returned /\ result.detection_method \in {"contradiction", "low_similarity"}

\* C1: a claim whose maximum entailment probability over the evidence exceeds
\* entailment_threshold yields no verdict, whatever its contradiction
\* probabilities and similarities: once its batch has run the loop is past it,
\* the similarity scorer is never invoked for it, and no returned verdict names it.
C1_EntailedClaimContinues ==
    LET J == Judgements
    IN  \A k \in DOMAIN J :
            J[k].ent > entailment_threshold =>
                /\ ~SimCalled(k)
                /\ NliCalled(k) => claim_idx > k
                /\ pc = "similarity" => claim_idx # k
                /\ ClaimVerdict => result.details.problem_claim # Claims[k]

\* C1 witness: an entailed claim that also has a contradiction probability above
\* contradiction_threshold and only low similarities was scored and passed.
C1_Witness ==
    /\ Returned
    /\ result.detection_method = "verified"
    /\ \E k \in DOMAIN Judgements :
        /\ NliCalled(k)
        /\ Judgements[k].ent > entailment_threshold
        /\ Judgements[k].con > contradiction_threshold
        /\ Judgements[k].sim < similarity_threshold

\* C2 as stated: every claim of the answer whose maximum contradiction
\* probability exceeds the threshold while its maximum entailment is below the
\* entailment threshold makes the whole-answer result a "contradiction" with
\* that claim's maximum contradiction probability as confidence.
C2_AnyContradictedClaimDecides ==
    Returned =>
        LET J == Judgements
        IN  \A k \in DOMAIN J :
                (J[k].con > contradiction_threshold /\ J[k].ent < entailment_threshold) =>
                    /\ result.is_hallucination
                    /\ result.detection_method = "contradiction"
                    /\ result.confidence_score = J[k].con

\* C2 amended: the same, for a claim before which no claim of the answer fails.
C2_FirstContradictedClaimDecides ==
    Returned =>
        LET J == Judgements
        IN  \A k \in DOMAIN J :
                (/\ J[k].con > contradiction_threshold
                 /\ J[k].ent < entailment_threshold
                 /\ \A j \in 1..(k - 1) : J[j].class \notin Failing) =>
                    /\ result.is_hallucination
                    /\ result.detection_method = "contradiction"
                    /\ result.confidence_score = J[k].con

\* C2 witness: the second claim is the contradicted one, the first one passed.
C2_Witness ==
    /\ Returned
    /\ Len(Judgements) = 2
    /\ Judgements[1].class \notin Failing
    /\ Judgements[2].con = One
    /\ Judgements[2].ent < entailment_threshold
    /\ result.detection_method = "contradiction"
    /\ result.confidence_score = One

\* C3: when some claim fails, detection stops at the first failing claim in
\* sentence order: the result names that claim, carries its method and score,
\* and no NLI or similarity scoring is ever done for a later claim.
C3_StopsAtFirstFailingClaim ==
    LET J == Judgements
    IN  \A k \in DOMAIN J :
            (J[k].class \in Failing /\ \A j \in 1..(k - 1) : J[j].class \notin Failing) =>
                /\ \A j \in DOMAIN J : j > k => ~NliCalled(j) /\ ~SimCalled(j)
                /\ claim_idx <= k
                /\ Returned =>
                    /\ result.is_hallucination
                    /\ result.details.problem_claim = Claims[k]
                    /\ IF J[k].class = "contradicted"
                       THEN /\ result.detection_method = "contradiction"
                            /\ result.confidence_score = J[k].con
                       ELSE /\ result.detection_method = "low_similarity"
                            /\ result.confidence_score = One - J[k].sim

\* C3 witness: two different claims both fail, and the verdict is the first one's.
C3_Witness ==
    /\ Returned
    /\ Len(Judgements) = 2
    /\ Claims[1] # Claims[2]
    /\ Judgements[1].class = "unsupported"
    /\ Judgements[2].class = "contradicted"
    /\ result.detection_method = "low_similarity"
    /\ result.details.problem_claim = Claims[1]
    /\ ~NliCalled(2)

\* A text with nothing but whitespace in it (the empty string included).
Blank(t) == \A k \in DOMAIN t : t[k] = 0
Passing == {"entailed", "supported"}

\* C4 as stated: with an empty evidence_docs list the result is always a
\* "no_evidence" hallucination with confidence 1.0, for every answer, the empty
\* and the whitespace-only answers included.
C4_NoEvidenceForEveryAnswer ==
    (Returned /\ evidence_docs = <<>>) =>
        /\ result.is_hallucination
        /\ result.detection_method = "no_evidence"
        /\ result.confidence_score = One

\* C4 amended: the same, for every answer that is not empty or whitespace-only.
C4_NoEvidenceForNonBlankAnswer ==
    (Returned /\ evidence_docs = <<>> /\ ~Blank(answer)) =>
        /\ result.is_hallucination
        /\ result.detection_method = "no_evidence"
        /\ result.confidence_score = One

\* C4 witness: an answer with a sentence in it was checked against no documents.
C4_Witness ==
    /\ Returned
    /\ evidence_docs = <<>>
    /\ Claims # <<>>
    /\ result.detection_method = "no_evidence"

\* C5: for an empty or whitespace-only answer the result is always
\* not-hallucination, "empty_answer", confidence 1.0, whatever the evidence (the
\* empty list included), and nothing is segmented or scored.
C5_EmptyAnswer ==
    Blank(answer) =>
        /\ tokenize_calls = <<>>
        /\ nli_calls = <<>>
        /\ sim_calls = <<>>
        /\ Returned =>
            /\ ~result.is_hallucination
            /\ result.detection_method = "empty_answer"
            /\ result.confidence_score = One

\* C5 witness: a whitespace-only answer was checked against evidence with text.
C5_Witness ==
    /\ Returned
    /\ answer # <<>>
    /\ Blank(answer)
    /\ Pool # {}
    /\ result.detection_method = "empty_answer"

\* C6: when every claim of a non-empty answer passes against a non-empty
\* evidence pool (entailed, or inconclusive with a maximum similarity not below
\* the threshold) the result is not-hallucination, "verified", confidence 1.0.
\* The condition reads only the set of the answer's claims, and the answers
\* range over every order of their sentences: the outcome is the same for
\* every permutation of the claims.
C6_AllClaimsPassVerified ==
    LET pool == Pool
    IN  (/\ Returned
         /\ pool # {}
         /\ Claims # <<>>
         /\ \A c \in Range(Claims) : Judge(c, pool).class \in Passing) =>
            /\ ~result.is_hallucination
            /\ result.detection_method = "verified"
            /\ result.confidence_score = One

\* C6 witness: two different claims, the second entailed and the first passed
\* by the similarity fallback, were verified.
C6_Witness ==
    /\ Returned
    /\ Len(Judgements) = 2
    /\ Claims = <<2, 1>>
    /\ Judgements[1].class = "supported"
    /\ Judgements[2].class = "entailed"
    /\ result.detection_method = "verified"

\* C7: for a claim on which neither the entailment nor the contradiction check
\* fired, the similarity fallback runs, and the call returns a "low_similarity"
\* hallucination with confidence 1 - max_similarity exactly when the maximum
\* similarity is below similarity_threshold; otherwise the claim yields no
\* verdict and the loop goes on to the next claim.
C7_LowSimilarityIff ==
    LET J == Judgements
    IN  /\ \A k \in DOMAIN J :
            (NliCalled(k) /\ J[k].class \in {"unsupported", "supported"}) =>
                IF ~SimCalled(k)
                THEN pc = "similarity" /\ claim_idx = k
                ELSE IF J[k].sim < similarity_threshold
                THEN /\ Returned
                     /\ claim_idx = k
                     /\ result.is_hallucination
                     /\ result.detection_method = "low_similarity"
                     /\ result.confidence_score = One - J[k].sim
                     /\ result.details.problem_claim = Claims[k]
                ELSE claim_idx > k
        /\ (Returned /\ result.detection_method = "low_similarity") =>
                /\ claim_idx \in DOMAIN J
                /\ J[claim_idx].class = "unsupported"

\* C7 witness: the first claim passed the fallback at exactly the threshold, the
\* second fell below it.
C7_Witness ==
    /\ Returned
    /\ Len(Judgements) = 2
    /\ Judgements[1].class = "supported"
    /\ Judgements[1].sim = similarity_threshold
    /\ Judgements[2].class = "unsupported"
    /\ result.detection_method = "low_similarity"
    /\ result.confidence_score = One - Judgements[2].sim

\* C8: the confidence_score of every returned DetectionResult lies in [0, 1].
C8_ConfidenceInUnitInterval ==
    Returned => (0 <= result.confidence_score /\ result.confidence_score <= One)

\* C9: a returned result that is not a hallucination has method "verified" or
\* "empty_answer", one that is a hallucination has "no_evidence",
\* "contradiction" or "low_similarity"; with the pipeline's "generation_error"
\* the method never leaves the six-value enumeration.
C9_MethodEnumeration ==
    /\ result # NoResult =>
          IF result.is_hallucination
          THEN result.detection_method \in {"no_evidence", "contradiction", "low_similarity"}
          ELSE result.detection_method \in {"verified", "empty_answer"}
    /\ pc = "pipeline_done" =>
          IF pipeline_result.is_hallucination
          THEN pipeline_result.detection_method \in
                   {"no_evidence", "contradiction", "low_similarity", "generation_error"}
          ELSE pipeline_result.detection_method \in {"verified", "empty_answer"}

\* C9 witness: the pipeline returned the detector's verdict on evidence without text.
C9_Witness ==
    /\ pc = "pipeline_done"
    /\ evidence_docs # <<>>
    /\ pipeline_result.detection_method = "no_evidence"

\* C10: a non-empty answer against a non-empty evidence_docs list whose
\* documents hold no sentence returns a "no_evidence" hallucination with
\* confidence 1.0 before any claim is processed: no NLI or similarity call.
C10_EvidenceWithoutText ==
    (/\ ~Blank(answer)
     /\ evidence_docs # <<>>
     /\ \A d \in DOMAIN evidence_docs : Blank(evidence_docs[d])) =>
        /\ nli_calls = <<>>
        /\ sim_calls = <<>>
        /\ claim_idx = 1
        /\ pc \in {"call", "done"}
        /\ Returned =>
            /\ result.is_hallucination
            /\ result.detection_method = "no_evidence"
            /\ result.confidence_score = One

\* C10 witness: the documents were an empty string and a whitespace-only one.
C10_Witness ==
    /\ Returned
    /\ Claims # <<>>
    /\ evidence_docs = <<<<>>, <<0>>>>
    /\ result.detection_method = "no_evidence"

\* C11: in generate_and_detect the generator is called exactly once; when its
\* answer starts with "Error:" the request ends at once with a hallucination
\* of confidence 1.0 and method "generation_error", and detect_hallucination
\* is never invoked for it (no check, no tokenisation, no NLI or similarity call).
C11_GenerationErrorShortCircuits ==
    caller = "pipeline" =>
        /\ generator_calls = (IF pc = "generate" THEN 0 ELSE 1)
        /\ (pc # "generate" /\ llm_response # <<>> /\ llm_response[1] = ERR) =>
            /\ pc = "pipeline_done"
            /\ detect_calls = 0
            /\ result = NoResult
            /\ nli_calls = <<>> /\ sim_calls = <<>> /\ tokenize_calls = <<>>
            /\ pipeline_result.is_hallucination
            /\ pipeline_result.confidence_score = One
            /\ pipeline_result.detection_method = "generation_error"
            /\ pipeline_result.raw_answer = llm_response

\* C11 witness: a request whose generated answer was an error message has returned.
C11_Witness ==
    /\ caller = "pipeline"
    /\ pc = "pipeline_done"
    /\ llm_response = <<ERR>>
    /\ generator_calls = 1
    /\ detect_calls = 0
    /\ pipeline_result.detection_method = "generation_error"

\* ------------------------------------------------ construction and GeminiLLM
\* Largest max_retries a caller passes, and the generate_answer calls followed.
MaxRetriesArg == 4
MaxGenCalls == 2

\* generate_answer(question, max_retries=3)
DefaultMaxRetries == 3

\* What response.content can be when model.invoke returns.
ResponseContents == {<<1>>, <<0, 2, 0>>, <<0>>}

\* Line 77: "Error: Unable to access Gemini API. ...", returned in fallback mode.
ErrorMessage == <<ERR>>

\* str(e) of a ResourceExhausted and of any other exception of model.invoke.
RateLimitText == 4
UnexpectedText == 5

\* Lines 95-98: "Error: Failed to generate answer ...", followed by
\* " Last error: {last_exception}" when the loop caught an exception.
FailureMessage(e) ==
    <<ERR>> \o (IF e = "none" THEN <<>>
                ELSE IF e = "rate_limit" THEN <<RateLimitText>> ELSE <<UnexpectedText>>)

RECURSIVE Power(_, _)
Power(base, exponent) == IF exponent = 0 THEN 1 ELSE base * Power(base, exponent - 1)

\* wait_time = 2 ** attempt
\* Faulty variant: a linear backoff.
WaitTimeLinear(n) == n + 1
WaitTime(n) == Power(2, n)

\* The detector and the models, not in use.
DetectorIdle ==
    /\ caller = "none"
    /\ llm_response = <<>>
    /\ nli_model = [p \in AllPairs |-> DefaultProfile.nli]
    /\ similarity_model = [p \in AllPairs |-> DefaultProfile.sim]
    /\ pc = "idle"
    /\ answer = <<>>
    /\ evidence_docs = <<>>
    /\ answer_claims = <<>>
    /\ all_evidence_sentences = <<>>
    /\ claim_idx = 1
    /\ all_probs = <<>>
    /\ similarity_scores = <<>>
    /\ result = NoResult
    /\ pipeline_result = NoPipelineResult
    /\ nli_calls = <<>>
    /\ sim_calls = <<>>
    /\ tokenize_calls = <<>>
    /\ generator_calls = 0
    /\ detect_calls = 0

\* GeminiLLM.__init__ as it ends for each failure of _initialize_llm: a missing
\* key returns early, an exception goes to use_fallback; nothing is re-raised.
GeminiConstructed(err) == "built"

\* HallucinationDetector.__init__ as it ends for each failure of _load_models:
\* the exception is logged and re-raised.
\* Faulty variant: the exception is logged and swallowed.
DetectorConstructedSwallowed(err) == "built"
DetectorConstructed(err) == IF err = "none" THEN "built" ELSE "raised"

\* HallucinationAnalysisPipeline.__init__: _initialize_components re-raises.
PipelineConstructed(gemini, detector) ==
    IF gemini = "built" /\ detector = "built" THEN "built" ELSE "raised"

\* main.py 37 and gemini_integration.py 36-70: self.gemini_llm = GeminiLLM().
ConstructGeminiLLM ==
    /\ pipe_state = "unbuilt"
    /\ \E err \in {"none", "no_key", "model", "test"} :
        /\ gem_load_error' = err
        /\ gem_model' = IF err \in {"none", "test"} THEN "set" ELSE "none"
        /\ api_working' = (err = "none")
        /\ gem_state' = GeminiConstructed(err)
        /\ pipe_state' = IF gem_state' = "built" THEN "gemini_ready" ELSE "raised"
    /\ UNCHANGED <<det_state, det_load_error, gemVars, detVars, apiVars, repVars, otherVars>>

\* main.py 38 and detection_module.py 59-93: self.detector = HallucinationDetector().
ConstructDetector ==
    /\ pipe_state = "gemini_ready"
    /\ \E err \in {"none", "embedding", "nli"} :
        /\ det_load_error' = err
        /\ det_state' = DetectorConstructed(err)
        /\ pipe_state' = PipelineConstructed(gem_state, det_state')
    /\ UNCHANGED <<gem_state, gem_load_error, gem_model, api_working, gemVars, detVars,
                   apiVars, repVars, otherVars>>

\* gemini_integration.py 72-79: generate_answer is entered.
\* Faulty variant: only a missing model is answered with the error string.
GenerateAnswerCallIgnoresApiWorking ==
    /\ pipe_state = "built"
    /\ gem_pc = "idle"
    /\ gen_calls < MaxGenCalls
    /\ gen_calls' = gen_calls + 1
    /\ \E m \in 0..MaxRetriesArg : max_retries' = m
    /\ attempt' = 0
    /\ outcomes' = <<>>
    /\ waits' = <<>>
    /\ last_exception' = "none"
    /\ IF gem_model = "none"
       THEN /\ gen_return' = [kind |-> "str", text |-> ErrorMessage]
            /\ gem_pc' = "idle"
       ELSE /\ gen_return' = NoReturn
            /\ gem_pc' = "loop"
    /\ UNCHANGED <<buildVars, detVars, apiVars, repVars, otherVars>>
GenerateAnswerCall ==
    /\ pipe_state = "built"
    /\ gem_pc = "idle"
    /\ gen_calls < MaxGenCalls
    /\ gen_calls' = gen_calls + 1
    /\ \E m \in 0..MaxRetriesArg : max_retries' = m
    /\ attempt' = 0
    /\ outcomes' = <<>>
    /\ waits' = <<>>
    /\ last_exception' = "none"
    /\ IF ~api_working \/ gem_model = "none"
       THEN /\ gen_return' = [kind |-> "str", text |-> ErrorMessage]
            /\ gem_pc' = "idle"
       ELSE /\ gen_return' = NoReturn
            /\ gem_pc' = "loop"
    /\ UNCHANGED <<buildVars, detVars, apiVars, repVars, otherVars>>

\* Lines 80-83: model.invoke returns; the stripped content is the answer.
AttemptSucceeds ==
    /\ gem_pc = "loop"
    /\ attempt < max_retries
    /\ outcomes' = Append(outcomes, "ok")
    /\ \E content \in ResponseContents :
        gen_return' = [kind |-> "str", text |-> strip(content)]
    /\ gem_pc' = "idle"
    /\ UNCHANGED <<max_retries, attempt, waits, gen_calls, last_exception, buildVars, detVars,
                   apiVars, repVars, otherVars>>

\* Lines 84-89: ResourceExhausted; sleep 2 ** attempt, then the next attempt.
AttemptRateLimited ==
    /\ gem_pc = "loop"
    /\ attempt < max_retries
    /\ outcomes' = Append(outcomes, "rate_limit")
    /\ waits' = Append(waits, WaitTime(attempt))
    /\ last_exception' = "rate_limit"
    /\ attempt' = attempt + 1
    /\ UNCHANGED <<gem_pc, max_retries, gen_return, gen_calls, buildVars, detVars, apiVars, repVars, otherVars>>

\* Lines 90-98: any other exception leaves the loop; the error string is returned.
\* Faulty variant: the exception is handled like a rate limit.
AttemptFailsRetried ==
    /\ gem_pc = "loop"
    /\ attempt < max_retries
    /\ outcomes' = Append(outcomes, "error")
    /\ waits' = Append(waits, WaitTime(attempt))
    /\ last_exception' = "error"
    /\ attempt' = attempt + 1
    /\ UNCHANGED <<gem_pc, max_retries, gen_return, gen_calls, buildVars, detVars, apiVars, repVars, otherVars>>
AttemptFails ==
    /\ gem_pc = "loop"
    /\ attempt < max_retries
    /\ outcomes' = Append(outcomes, "error")
    /\ last_exception' = "error"
    /\ gen_return' = [kind |-> "str", text |-> FailureMessage(last_exception')]
    /\ gem_pc' = "idle"
    /\ UNCHANGED <<max_retries, attempt, waits, gen_calls, buildVars, detVars, apiVars, repVars, otherVars>>

\* Lines 95-98: the loop ran out of attempts; the error string is returned.
RetriesExhausted ==
    /\ gem_pc = "loop"
    /\ attempt >= max_retries
    /\ gen_return' = [kind |-> "str", text |-> FailureMessage(last_exception)]
    /\ gem_pc' = "idle"
    /\ UNCHANGED <<max_retries, attempt, outcomes, waits, gen_calls, last_exception, buildVars, detVars, apiVars, repVars, otherVars>>

InitGemini == DetectorIdle /\ ExtIdle

AnswerStep ==
    \/ AttemptSucceeds
    \/ AttemptRateLimited
    \/ AttemptFails
    \/ RetriesExhausted

NextGemini ==
    \/ ConstructGeminiLLM
    \/ ConstructDetector
    \/ GenerateAnswerCall
    \/ AnswerStep

\* A pipeline is constructed, then generate_answer is called on its generator.
SpecGemini == InitGemini /\ [][NextGemini]_vars

\* model.invoke and time.sleep return: a call under way takes its next step.
SpecGeminiFair == SpecGemini /\ WF_vars(AnswerStep)

\* What C12 says of the state of one generate_answer call.
RateLimited == {k \in DOMAIN outcomes : outcomes[k] = "rate_limit"}

RetryBudget ==
    /\ Len(outcomes) <= max_retries
    /\ \A k \in 1..(Len(outcomes) - 1) : outcomes[k] = "rate_limit"
    /\ Len(waits) = Cardinality(RateLimited)
    /\ waits # <<>> => waits[1] = 1
    /\ \A k \in 2..Len(waits) : waits[k] = 2 * waits[k - 1]
    /\ (max_retries = DefaultMaxRetries /\ Len(waits) = 3) => waits = <<1, 2, 4>>
    /\ gem_pc = "loop" => gen_return = NoReturn
    /\ (gem_pc = "idle" /\ gen_calls > 0) =>
        /\ gen_return.kind = "str"
        /\ (outcomes = <<>> \/ outcomes[Len(outcomes)] # "ok") =>
            (gen_return.text # <<>> /\ gen_return.text[1] = ERR)

\* C12: one generate_answer call invokes the model at most max_retries times,
\* invokes it again only after a rate-limit failure, sleeps 2^attempt seconds
\* after the rate-limited attempt number attempt (1, 2, 4 for the default 3),
\* returns a string in every case, one that starts with "Error:" when no
\* attempt succeeded, and always returns.
C12_BoundedRetries ==
    /\ []RetryBudget
    /\ (gem_pc = "loop") ~> (gem_pc = "idle")

\* C12 witness: three attempts of a default call were rate limited and the
\* error string came back.
C12_Witness ==
    /\ gem_pc = "idle"
    /\ max_retries = DefaultMaxRetries
    /\ outcomes = <<"rate_limit", "rate_limit", "rate_limit">>
    /\ waits = <<1, 2, 4>>
    /\ gen_return = [kind |-> "str", text |-> <<ERR, RateLimitText>>]

\* C13 as stated: a model that fails to load leaves no constructed instance:
\* the detector, the generator and the pipeline all end by raising.
C13_ConstructionFailFast ==
    /\ det_load_error # "none" =>
        (det_state = "raised" /\ pipe_state = "raised" /\ gen_calls = 0)
    /\ gem_load_error \in {"model", "test"} =>
        (gem_state = "raised" /\ pipe_state \in {"unbuilt", "raised"} /\ gen_calls = 0)

\* C13, amended: a failure to load the embedding or the NLI model raises out
\* of HallucinationDetector() and HallucinationAnalysisPipeline(), and nothing
\* serves requests; a failure to load or to test the generation model is
\* caught in GeminiLLM(): the instance is constructed with api_working false
\* and answers every call with an "Error:" string without invoking the model.
C13_DetectorFailFastGeneratorFallsBack ==
    /\ det_load_error # "none" =>
        (det_state = "raised" /\ pipe_state = "raised" /\ gen_calls = 0)
    /\ gem_load_error \in {"model", "test"} =>
        /\ gem_state = "built"
        /\ ~api_working
        /\ outcomes = <<>>
        /\ gem_pc = "idle"
        /\ gen_calls > 0 => gen_return = [kind |-> "str", text |-> ErrorMessage]

\* C13 witness: the test invocation failed in the constructor, the pipeline
\* was built all the same and has answered a request.
C13_Witness ==
    /\ gem_load_error = "test"
    /\ pipe_state = "built"
    /\ gen_calls > 0
    /\ gen_return.text = <<ERR>>

\* C24: a failure of model.invoke that is not a rate limit ends the attempt
\* loop at once: it is the last invocation of the call, no backoff wait
\* follows it, and the string returned starts with "Error:" and includes the
\* text of that last error.
C24_UnexpectedErrorEndsTheLoop ==
    \A k \in DOMAIN outcomes :
        outcomes[k] = "error" =>
            /\ k = Len(outcomes)
            /\ gem_pc = "idle"
            /\ Len(waits) = k - 1
            /\ attempt = k - 1
            /\ gen_return = [kind |-> "str", text |-> <<ERR, UnexpectedText>>]

\* C24 witness: the first attempt was rate limited, the second failed for
\* another reason, and the call returned after the one wait.
C24_Witness ==
    /\ outcomes = <<"rate_limit", "error">>
    /\ waits = <<1>>
    /\ max_retries > 2
    /\ gen_return.text = <<ERR, UnexpectedText>>

\* C25: after a failed initialisation (no key, the model could not be built,
\* the test invocation raised) api_working is false, every generate_answer
\* call returns the "Error:" string without invoking the model, and no step
\* after construction changes api_working.
C25_FallbackModeIsPermanent ==
    /\ [](gem_load_error # "none" =>
            /\ ~api_working
            /\ outcomes = <<>>
            /\ gem_pc = "idle"
            /\ gen_calls > 0 => gen_return = [kind |-> "str", text |-> ErrorMessage])
    /\ [][gem_state = "built" => api_working' = api_working]_vars

\* C25 witness: the key was missing and two calls have been answered.
C25_Witness ==
    /\ gem_load_error = "no_key"
    /\ gem_model = "none"
    /\ gen_calls = MaxGenCalls
    /\ outcomes = <<>>
    /\ gen_return.text = ErrorMessage

\* ------------------------------------ the API handler and the correction log
\* Requests followed.
MaxRequests == 2

\* request.get_json(): nothing, {}, an object without and with the key
\* 'question', a JSON string with and without the word, a JSON list holding
\* the word, a JSON number.
RequestBodies ==
    {[type |-> "none",   truthy |-> FALSE, has_question |-> FALSE],
     [type |-> "object", truthy |-> FALSE, has_question |-> FALSE],
     [type |-> "object", truthy |-> TRUE,  has_question |-> FALSE],
     [type |-> "object", truthy |-> TRUE,  has_question |-> TRUE],
     [type |-> "string", truthy |-> TRUE,  has_question |-> TRUE],
     [type |-> "string", truthy |-> TRUE,  has_question |-> FALSE],
     [type |-> "list",   truthy |-> TRUE,  has_question |-> TRUE],
     [type |-> "number", truthy |-> TRUE,  has_question |-> FALSE]}

\* api.py 24-27, outside the try block: not data, 'question' not in data
\* (a TypeError for a number), data['question'] (a TypeError for a string or
\* a list).
BodyCheck(d) ==
    IF ~d.truthy THEN "missing"
    ELSE IF d.type = "number" THEN "raises"
    ELSE IF ~d.has_question THEN "missing"
    ELSE IF d.type = "object" THEN "ok"
    ELSE "raises"

\* What generate_and_detect returns to the handler: a verified answer, a
\* detected hallucination, a generation error.
DetectionResults ==
    {[returned |-> TRUE, raw_answer |-> <<1>>, is_hallucination |-> FALSE, confidence_score |-> One],
     [returned |-> TRUE, raw_answer |-> <<1>>, is_hallucination |-> TRUE, confidence_score |-> 99],
     [returned |-> TRUE, raw_answer |-> <<ERR>>, is_hallucination |-> TRUE, confidence_score |-> One]}

\* What correct_and_regenerate computes: the regenerated answer, the
\* citations of the source documents and calculate_confidence_score's value
\* (0.0 without source documents).
Corrections ==
    {[returned |-> TRUE, CorrectedAnswer |-> <<2>>, Citations |-> <<>>, ConfidenceScore |-> 0],
     [returned |-> TRUE, CorrectedAnswer |-> <<2>>, Citations |-> <<1>>, ConfidenceScore |-> 85],
     [returned |-> TRUE, CorrectedAnswer |-> <<2>>, Citations |-> <<1, 2>>, ConfidenceScore |-> 0]}

BadRequest ==
    [status |-> 400, json |-> TRUE, body |-> [error |-> "Missing 'question' in request body"]]

\* except Exception as e: jsonify({"error": str(e)}), 500
InternalError(message) == [status |-> 500, json |-> TRUE, body |-> [error |-> message]]

\* An exception that leaves the view function: the framework's own error page.
Unhandled == [status |-> 500, json |-> FALSE, body |-> [exception |-> "TypeError"]]

Ok(raw_answer, corrected_answer, confidence_score, is_hallucination, citations) ==
    [status |-> 200, json |-> TRUE,
     body |-> [question |-> "question",
               raw_answer |-> raw_answer,
               corrected_answer |-> corrected_answer,
               confidence_score |-> confidence_score,
               is_hallucination |-> is_hallucination,
               citations |-> citations]]

\* if is_hallucination:
\* Faulty variant: every answer is corrected.
NeedsCorrectionAlways(r) == TRUE
NeedsCorrection(r) == r.is_hallucination

\* api.py 53-54: the correction's score replaces the detection's when truthy.
\* Faulty variant: the correction's score always replaces the detection's.
ResponseConfidenceFromCorrection(r, c) == c.ConfidenceScore
ResponseConfidence(r, c) ==
    IF c.ConfidenceScore # 0 THEN c.ConfidenceScore ELSE r.confidence_score

\* "; ".join(citations); 0 stands for the separator.
RECURSIVE JoinCitations(_)
JoinCitations(citations) ==
    IF citations = <<>> THEN <<>>
    ELSE IF Len(citations) = 1 THEN citations
    ELSE <<Head(citations), 0>> \o JoinCitations(Tail(citations))

\* The row the INSERT writes (id and timestamp are the table's defaults).
\* Faulty variant: the corrected answer is stored in both answer columns.
LogRowCorrectedTwice(raw_answer, c) ==
    [Question |-> "question",
     RawAnswer |-> c.CorrectedAnswer,
     CorrectedAnswer |-> c.CorrectedAnswer,
     Citations |-> JoinCitations(c.Citations),
     ConfidenceScore |-> c.ConfidenceScore]
LogRow(raw_answer, c) ==
    [Question |-> "question",
     RawAnswer |-> raw_answer,
     CorrectedAnswer |-> c.CorrectedAnswer,
     Citations |-> JoinCitations(c.Citations),
     ConfidenceScore |-> c.ConfidenceScore]

\* api.py 23-28: the body is read and checked.
ReceiveRequest ==
    /\ api_pc = "idle"
    /\ requests < MaxRequests
    /\ requests' = requests + 1
    /\ \E d \in RequestBodies :
        /\ data' = d
        /\ IF BodyCheck(d) = "missing"
           THEN response' = BadRequest /\ api_pc' = "idle"
           ELSE IF BodyCheck(d) = "raises"
           THEN response' = Unhandled /\ api_pc' = "idle"
           ELSE response' = NoResponse /\ api_pc' = "retrieve_evidence"
    /\ detection_result' = NoDetection
    /\ correction_result' = NoCorrection
    /\ api_calls' = <<>>
    /\ log_failure' = "none"
    /\ rows_before' = Len(logs)
    /\ UNCHANGED <<logs, table_exists, corrections_logged, detVars, buildVars, gemVars, repVars, otherVars>>

\* api.py 33: retrieve_evidence returns or raises.
\* Faulty variant: the handler goes on after the exception.
RetrieveEvidenceThenGoesOn ==
    /\ api_pc = "retrieve_evidence"
    /\ api_calls' = Append(api_calls, "retrieve_evidence")
    /\ api_pc' = "generate_and_detect"
    /\ \/ UNCHANGED response
       \/ response' = InternalError("retrieval failed")
    /\ UNCHANGED <<data, detection_result, correction_result, log_failure, rows_before,
                   requests, logs, table_exists, corrections_logged,
                   detVars, buildVars, gemVars, repVars, otherVars>>
RetrieveEvidence ==
    /\ api_pc = "retrieve_evidence"
    /\ api_calls' = Append(api_calls, "retrieve_evidence")
    /\ \/ api_pc' = "generate_and_detect" /\ UNCHANGED response
       \/ api_pc' = "idle" /\ response' = InternalError("retrieval failed")
    /\ UNCHANGED <<data, detection_result, correction_result, log_failure, rows_before,
                   requests, logs, table_exists, corrections_logged,
                   detVars, buildVars, gemVars, repVars, otherVars>>

\* api.py 37-47, 55-65 and main.py 45-87: generate_and_detect calls
\* generate_answer and, unless the answer starts with "Error:",
\* detect_hallucination; it returns or one of the two raises; an answer that
\* is no hallucination is returned as it is.
GenerateAndDetect ==
    /\ api_pc = "generate_and_detect"
    /\ \/ /\ api_calls' = Append(api_calls, "generate_answer")
          /\ api_pc' = "idle"
          /\ response' = InternalError("generation failed")
          /\ UNCHANGED detection_result
       \/ /\ api_calls' = api_calls \o <<"generate_answer", "detect_hallucination">>
          /\ api_pc' = "idle"
          /\ response' = InternalError("detection failed")
          /\ UNCHANGED detection_result
       \/ \E r \in DetectionResults :
            /\ api_calls' = api_calls \o
                    (IF startswith_Error(r.raw_answer)
                     THEN <<"generate_answer">>
                     ELSE <<"generate_answer", "detect_hallucination">>)
            /\ detection_result' = r
            /\ IF NeedsCorrection(r)
               THEN api_pc' = "correct_and_regenerate" /\ UNCHANGED response
               ELSE /\ api_pc' = "idle"
                    /\ response' = Ok(r.raw_answer, r.raw_answer, r.confidence_score,
                                      r.is_hallucination, <<>>)
    /\ UNCHANGED <<data, correction_result, log_failure, rows_before,
                   requests, logs, table_exists, corrections_logged,
                   detVars, buildVars, gemVars, repVars, otherVars>>

\* api.py 49 and correction_module.py 69-122: the answer is regenerated, the
\* citations and the confidence computed; any of it may raise.
CorrectAndRegenerate ==
    /\ api_pc = "correct_and_regenerate"
    /\ api_calls' = Append(api_calls, "correct_and_regenerate")
    /\ \/ /\ api_pc' = "idle"
          /\ response' = InternalError("correction failed")
          /\ UNCHANGED correction_result
       \/ \E c \in Corrections :
            /\ correction_result' = c
            /\ api_pc' = "log_hallucination_data"
            /\ UNCHANGED response
    /\ UNCHANGED <<data, detection_result, log_failure, rows_before,
                   requests, logs, table_exists, corrections_logged,
                   detVars, buildVars, gemVars, repVars, otherVars>>

\* correction_module.py 52-67 and 125-134, api.py 50-65: sqlite3.connect and
\* conn.cursor() run before the try block, so their exception leaves
\* log_hallucination_data and correct_and_regenerate and reaches the handler's
\* except; an sqlite3.Error of the INSERT or of the commit is caught and the
\* correction is returned; otherwise one row is committed.
LogHallucinationData ==
    /\ api_pc = "log_hallucination_data"
    /\ api_calls' = Append(api_calls, "log_hallucination_data")
    /\ api_pc' = "idle"
    /\ LET r == detection_result
           c == correction_result
           ok == Ok(r.raw_answer, c.CorrectedAnswer, ResponseConfidence(r, c),
                    r.is_hallucination, c.Citations)
       IN  \/ /\ log_failure' = "connect"
              /\ response' = InternalError("unable to open database file")
              /\ UNCHANGED <<logs, corrections_logged>>
           \/ /\ log_failure' = "insert"
              /\ response' = ok
              /\ UNCHANGED <<logs, corrections_logged>>
           \/ /\ table_exists
              /\ log_failure' = "none"
              /\ logs' = Append(logs, LogRow(r.raw_answer, c))
              /\ corrections_logged' = corrections_logged + 1
              /\ response' = ok
    /\ UNCHANGED <<data, detection_result, correction_result, rows_before, requests,
                   table_exists, detVars, buildVars, gemVars, repVars, otherVars>>

\* correction_module.py 13-28: CREATE TABLE IF NOT EXISTS logs.
\* Faulty variant: the table is created anew.
InitializeDatabaseRecreate ==
    /\ api_pc = "idle"
    /\ table_exists' = TRUE
    /\ logs' = <<>>
    /\ UNCHANGED <<api_pc, data, detection_result, correction_result, response, api_calls,
                   log_failure, rows_before, requests, corrections_logged,
                   detVars, buildVars, gemVars, repVars, otherVars>>
InitializeDatabase ==
    /\ api_pc = "idle"
    /\ table_exists' = TRUE
    /\ UNCHANGED <<api_pc, data, detection_result, correction_result, response, api_calls,
                   log_failure, rows_before, requests, logs, corrections_logged,
                   detVars, buildVars, gemVars, repVars, otherVars>>

InitApi == DetectorIdle /\ ExtIdle

NextApi ==
    \/ ReceiveRequest
    \/ RetrieveEvidence
    \/ GenerateAndDetect
    \/ CorrectAndRegenerate
    \/ LogHallucinationData
    \/ InitializeDatabase

\* Requests to /detect_hallucination, one after the other, on one database.
SpecApi == InitApi /\ [][NextApi]_vars

Called(name) == \E k \in DOMAIN api_calls : api_calls[k] = name
Answered == api_pc = "idle" /\ requests > 0

\* C14: the handler calls correct_and_regenerate exactly for the pipeline
\* results with is_hallucination true; for a result with is_hallucination
\* false the request is answered 200 with corrected_answer equal to
\* raw_answer and no citations, without a correction call or a new log row.
C14_CorrectionIffHallucination ==
    /\ Called("correct_and_regenerate") =>
        (detection_result.returned /\ detection_result.is_hallucination)
    /\ (detection_result.returned /\ detection_result.is_hallucination) =>
        (api_pc = "correct_and_regenerate" \/ Called("correct_and_regenerate"))
    /\ (detection_result.returned /\ ~detection_result.is_hallucination) =>
        /\ api_pc = "idle"
        /\ response.status = 200
        /\ response.body.raw_answer = detection_result.raw_answer
        /\ response.body.corrected_answer = response.body.raw_answer
        /\ response.body.citations = <<>>
        /\ ~response.body.is_hallucination
        /\ ~Called("correct_and_regenerate")
        /\ ~Called("log_hallucination_data")
        /\ Len(logs) = rows_before

\* C14 witness: after a logged correction, a second request whose answer was
\* no hallucination has been answered.
C14_Witness ==
    /\ Answered
    /\ requests = 2
    /\ logs # <<>>
    /\ detection_result.returned
    /\ ~detection_result.is_hallucination
    /\ response.status = 200
    /\ response.body.corrected_answer = <<1>>

\* C15: every request is answered with a JSON body, by 400 and an error when
\* the body is missing or has no 'question', by 200 and the six fields, or by
\* 500 and an error message when a collaborator raised.
C15_StructuredOutcome ==
    Answered =>
        /\ response.json
        /\ \/ /\ response.status = 400
              /\ DOMAIN response.body = {"error"}
              /\ (data.type = "none" \/ ~data.has_question)
           \/ /\ response.status = 200
              /\ DOMAIN response.body = {"question", "raw_answer", "corrected_answer",
                                         "confidence_score", "is_hallucination", "citations"}
           \/ /\ response.status = 500
              /\ DOMAIN response.body = {"error"}
              /\ api_calls # <<>>

\* C16: a request whose logging failed, at the connection or at the INSERT,
\* is still answered 200 with the correction that had been computed.
C16_LoggingFailureDoesNotAbort ==
    (Answered /\ log_failure # "none") =>
        /\ response.status = 200
        /\ response.body.corrected_answer = correction_result.CorrectedAnswer
        /\ response.body.citations = correction_result.Citations
        /\ response.body.confidence_score =
               ResponseConfidence(detection_result, correction_result)

IsPrefix(s, t) == Len(s) <= Len(t) /\ SubSeq(t, 1, Len(s)) = s

\* A correct_and_regenerate call ends without a persistence error.
LoggedWithoutError == api_pc = "log_hallucination_data" /\ log_failure' = "none"

\* C20: the rows of logs are never changed or removed, a step adds one row
\* exactly when it is a correction whose logging raised no error, and the
\* number of rows is the number of those corrections.
C20_AppendOnlyLog ==
    /\ [](Len(logs) = corrections_logged)
    /\ [][/\ IsPrefix(logs, logs')
          /\ Len(logs') = IF LoggedWithoutError THEN Len(logs) + 1 ELSE Len(logs)]_vars

\* C20 witness: two corrections were logged, one after the other.
C20_Witness ==
    /\ Answered
    /\ Len(logs) = 2
    /\ corrections_logged = 2
    /\ requests = 2

CallOrder ==
    <<"retrieve_evidence", "generate_answer", "detect_hallucination",
      "correct_and_regenerate", "log_hallucination_data">>

Rank(name) == CHOOSE k \in DOMAIN CallOrder : CallOrder[k] = name

\* The calls of one request follow the handler's order, each at most once.
CallsInOrder ==
    /\ \A i, j \in DOMAIN api_calls : i < j => Rank(api_calls[i]) < Rank(api_calls[j])
    /\ api_calls # <<>> => api_calls[1] = "retrieve_evidence"
    /\ \A k \in 2..Len(api_calls) :
        /\ api_calls[k] = "generate_answer" => api_calls[k - 1] = "retrieve_evidence"
        /\ api_calls[k] = "detect_hallucination" => api_calls[k - 1] = "generate_answer"
        /\ api_calls[k] = "correct_and_regenerate" =>
            api_calls[k - 1] \in {"generate_answer", "detect_hallucination"}
        /\ api_calls[k] = "log_hallucination_data" =>
            api_calls[k - 1] = "correct_and_regenerate"
    /\ Called("correct_and_regenerate") =>
        (detection_result.returned /\ detection_result.is_hallucination)

\* A call that raised is the last call of its request.
RaiseEndsTheRequest ==
    /\ response = BadRequest => (api_pc = "idle" /\ api_calls = <<>>)
    /\ response = InternalError("retrieval failed") =>
        (api_pc = "idle" /\ api_calls = <<"retrieve_evidence">>)
    /\ response = InternalError("generation failed") =>
        (api_pc = "idle" /\ api_calls = <<"retrieve_evidence", "generate_answer">>)
    /\ response = InternalError("detection failed") =>
        (api_pc = "idle" /\ api_calls = SubSeq(CallOrder, 1, 3))
    /\ response = InternalError("correction failed") =>
        (/\ api_pc = "idle"
         /\ api_calls[Len(api_calls)] = "correct_and_regenerate")
    /\ response = InternalError("unable to open database file") =>
        (/\ api_pc = "idle"
         /\ api_calls[Len(api_calls)] = "log_hallucination_data")

\* C27: within one request the collaborators are called in the order
\* retrieval, generation, detection, correction, logging, each at most once,
\* correction and logging only for a hallucination; a request answered 400
\* calls none of them; a call that raises is the last of its request; a step
\* either starts a new request or adds calls after those already made.
C27_CallsInFixedOrder ==
    /\ [](CallsInOrder /\ RaiseEndsTheRequest)
    /\ [][requests' = requests + 1 \/ IsPrefix(api_calls, api_calls')]_vars

\* C27 witness: a request went through all five calls and was answered 200.
C27_Witness ==
    /\ Answered
    /\ response.status = 200
    /\ api_calls = CallOrder

MaxCalls == 3

\* The arguments of the repeated calls.
RepeatAnswers == {<<0>>, <<1>>, <<1, 2>>, <<2, 1>>}
RepeatEvidence == {<<>>, <<<<1>>, <<>>>>}
RepeatPairs == {1} \X ClaimIds

\* A constructed detector and its first call.
InitRepeat ==
    \E a \in RepeatAnswers : \E docs \in RepeatEvidence :
      \E prof \in [RepeatPairs -> Profiles] :
        /\ caller = "direct"
        /\ nli_model = [p \in AllPairs |->
                          IF p \in DOMAIN prof THEN prof[p].nli ELSE DefaultProfile.nli]
        /\ similarity_model = [p \in AllPairs |->
                          IF p \in DOMAIN prof THEN prof[p].sim ELSE DefaultProfile.sim]
        /\ llm_response = <<>>
        /\ answer = a
        /\ evidence_docs = docs
        /\ pc = "call"
        /\ answer_claims = <<>>
        /\ all_evidence_sentences = <<>>
        /\ claim_idx = 1
        /\ all_probs = <<>>
        /\ similarity_scores = <<>>
        /\ result = NoResult
        /\ pipeline_result = NoPipelineResult
        /\ nli_calls = <<>>
        /\ sim_calls = <<>>
        /\ tokenize_calls = <<>>
        /\ generator_calls = 0
        /\ detect_calls = 0
        /\ ExtIdle

\* detect_hallucination has returned and is called again on the same
\* instance: new arguments, and locals that start afresh (the loop at the
\* first claim); self holds the models and the thresholds only.
\* Faulty variant: the loop position is kept on the instance between calls.
CallAgainKeepsPosition ==
    /\ pc = "done"
    /\ calls_made + 1 < MaxCalls
    /\ history' = history \cup
           {[answer |-> answer, evidence_docs |-> evidence_docs, result |-> result]}
    /\ calls_made' = calls_made + 1
    /\ \E a \in RepeatAnswers : \E docs \in RepeatEvidence :
        answer' = a /\ evidence_docs' = docs
    /\ pc' = "call"
    /\ answer_claims' = <<>>
    /\ all_evidence_sentences' = <<>>
    /\ all_probs' = <<>>
    /\ similarity_scores' = <<>>
    /\ result' = NoResult
    /\ nli_calls' = <<>>
    /\ sim_calls' = <<>>
    /\ tokenize_calls' = <<>>
    /\ UNCHANGED <<claim_idx, modelVars, caller, llm_response, pipeline_result, countVars,
                   buildVars, gemVars, apiVars, otherVars>>
CallAgain ==
    /\ pc = "done"
    /\ calls_made + 1 < MaxCalls
    /\ history' = history \cup
           {[answer |-> answer, evidence_docs |-> evidence_docs, result |-> result]}
    /\ calls_made' = calls_made + 1
    /\ \E a \in RepeatAnswers : \E docs \in RepeatEvidence :
        answer' = a /\ evidence_docs' = docs
    /\ pc' = "call"
    /\ answer_claims' = <<>>
    /\ all_evidence_sentences' = <<>>
    /\ claim_idx' = 1
    /\ all_probs' = <<>>
    /\ similarity_scores' = <<>>
    /\ result' = NoResult
    /\ nli_calls' = <<>>
    /\ sim_calls' = <<>>
    /\ tokenize_calls' = <<>>
    /\ UNCHANGED <<modelVars, caller, llm_response, pipeline_result, countVars,
                   buildVars, gemVars, apiVars, otherVars>>

NextRepeat ==
    \/ InitialChecks
    \/ NliCheck
    \/ SimilarityFallback
    \/ Verified
    \/ CallAgain

\* Calls of detect_hallucination, one after the other, on one detector.
SpecRepeat == InitRepeat /\ [][NextRepeat]_vars

SameArguments(h) == h.answer = answer /\ h.evidence_docs = evidence_docs

\* C17: with the models and the thresholds fixed, any two calls on the same
\* (answer, evidence_docs) return the same result, whatever calls were made
\* on the instance before, between or after them.
C17_SameInputSameVerdict ==
    /\ \A h1 \in history : \A h2 \in history :
        (h1.answer = h2.answer /\ h1.evidence_docs = h2.evidence_docs) =>
            h1.result = h2.result
    /\ Returned => \A h \in history : SameArguments(h) => h.result = result

\* C17 witness: the third call repeats an earlier one that ended in a verdict
\* on its first claim, a call on another answer came with it, and the verdict
\* is the same again.
C17_Witness ==
    /\ Returned
    /\ calls_made = 2
    /\ Cardinality(history) = 2
    /\ Len(answer) = 2
    /\ result.detection_method = "low_similarity"
    /\ \E h \in history : SameArguments(h) /\ h.result = result
    /\ \E h \in history : h.answer = <<1>> /\ h.result.detection_method = "verified"

\* C18: every similarity scoring is given the whole evidence pool, which has
\* at least one sentence: the loop is entered with a non-empty pool only,
\* since the calls without evidence text have returned before it.
C18_SimilarityHasEvidence ==
    /\ \A n \in DOMAIN sim_calls :
        /\ sim_calls[n].evidence # <<>>
        /\ sim_calls[n].evidence = EvidenceSentences(evidence_docs)
    /\ pc \in {"loop", "similarity"} => all_evidence_sentences # <<>>
    /\ (evidence_docs = <<>> \/ \A d \in DOMAIN evidence_docs : Blank(evidence_docs[d])) =>
        (sim_calls = <<>> /\ pc \in {"call", "done"})

\* C18 witness: one document of two had no text; the claim was scored against
\* the single sentence of the other.
C18_Witness ==
    /\ Returned
    /\ Len(evidence_docs) = 2
    /\ \E d \in DOMAIN evidence_docs : Blank(evidence_docs[d])
    /\ Len(sim_calls) = 1
    /\ Len(sim_calls[1].evidence) = 1

\* C19: the n-th NLI inference of a call is the batch of the n-th claim: one
\* (evidence sentence, claim) pair per sentence of the pool, in pool order,
\* evidence first.  When the call returns, the number of inferences is the
\* number of claims up to and including the first failing one (all of them
\* when none fails, none when the call returned before the loop).
C19_OneBatchPerClaim ==
    LET J == Judgements
        pool == EvidenceSentences(evidence_docs)
        failing == {k \in DOMAIN J : J[k].class \in Failing}
        examined == IF failing = {} THEN Len(J)
                    ELSE CHOOSE k \in failing : \A j \in failing : k <= j
    IN  /\ Len(nli_calls) <= examined
        /\ examined <= Len(Claims)
        /\ \A n \in DOMAIN nli_calls :
            /\ nli_calls[n].claim_idx = n
            /\ nli_calls[n].pairs = [k \in DOMAIN pool |-> <<pool[k], Claims[n]>>]
        /\ Returned => Len(nli_calls) = examined

\* C19 witness: the second of three claims failed; the call made two inferences.
C19_Witness ==
    /\ Returned
    /\ Len(Claims) = 3
    /\ ClaimVerdict
    /\ Len(nli_calls) = 2
    /\ result.details.problem_claim = Claims[2]

\* ------------------------------------------- more claims on one detector call
\* C21: a "contradiction" verdict names an evidence sentence of the pool whose
\* contradiction probability for the problem claim is the maximum over the
\* pool and equals confidence_score and details.contradiction_score; a
\* "low_similarity" verdict names an evidence sentence of the pool whose
\* similarity to the problem claim is the maximum over the pool and equals
\* details.max_similarity_score.
C21_DetailsNameTheExtremeEvidence ==
    Returned =>
        /\ result.detection_method = "contradiction" =>
            LET c == result.details.problem_claim
                e == result.details.contradictory_evidence
            IN  /\ e \in Pool
                /\ nli_model[<<e, c>>][CONTRADICTION_INDEX] = result.confidence_score
                /\ result.details.contradiction_score = result.confidence_score
                /\ \A other \in Pool :
                    nli_model[<<other, c>>][CONTRADICTION_INDEX] <= result.confidence_score
        /\ result.detection_method = "low_similarity" =>
            LET c == result.details.problem_claim
                e == result.details.closest_evidence
            IN  /\ e \in Pool
                /\ similarity_model[<<e, c>>] = result.details.max_similarity_score
                /\ \A other \in Pool :
                    similarity_model[<<other, c>>] <= result.details.max_similarity_score

\* C21 witness: of two different evidence sentences the second contradicts
\* the claim most, and the verdict names it.
C21_Witness ==
    /\ Returned
    /\ result.detection_method = "contradiction"
    /\ Len(all_evidence_sentences) = 2
    /\ all_evidence_sentences[1] # all_evidence_sentences[2]
    /\ result.details.contradictory_evidence = all_evidence_sentences[2]
    /\ nli_model[<<all_evidence_sentences[1], result.details.problem_claim>>][0]
           < result.confidence_score

\* C22: every result carries the answer and the evidence_docs of the call as
\* they were supplied, and no step of the call changes either argument.
C22_ArgumentsCarriedUnchanged ==
    /\ [](Returned => (result.raw_answer = answer /\ result.evidence_docs = evidence_docs))
    /\ [][answer' = answer /\ evidence_docs' = evidence_docs]_vars

\* C22 witness: a verified answer with leading whitespace, against two
\* documents of which the first is empty.
C22_Witness ==
    /\ Returned
    /\ result.detection_method = "verified"
    /\ Len(answer) = 2 /\ answer[1] = 0
    /\ Len(evidence_docs) = 2 /\ evidence_docs[1] = <<>>
    /\ result.raw_answer = answer
    /\ result.evidence_docs = evidence_docs

\* C23: the comparisons are strict.  For a claim before which no claim fails:
\* a maximum entailment probability equal to entailment_threshold does not
\* accept the claim (the contradiction check decides, or the similarity
\* scorer is invoked for it); a maximum contradiction probability equal to
\* contradiction_threshold gives no contradiction verdict (the similarity
\* scorer is invoked); a maximum similarity equal to similarity_threshold
\* gives no low_similarity verdict (no verdict names the claim).
C23_StrictComparisons ==
    LET J == Judgements
    IN  Returned =>
          \A k \in DOMAIN J :
            (/\ \A j \in 1..(k - 1) : J[j].class \notin Failing
             /\ J[k].ent <= entailment_threshold) =>
                /\ (J[k].ent = entailment_threshold /\ J[k].con > contradiction_threshold) =>
                    (/\ result.detection_method = "contradiction"
                     /\ result.details.problem_claim = Claims[k])
                /\ (J[k].ent = entailment_threshold /\ J[k].con <= contradiction_threshold) =>
                    SimCalled(k)
                /\ J[k].con = contradiction_threshold =>
                    (/\ SimCalled(k)
                     /\ ~(/\ result.detection_method = "contradiction"
                          /\ result.details.problem_claim = Claims[k]))
                /\ (J[k].con <= contradiction_threshold /\ J[k].sim = similarity_threshold) =>
                    (/\ SimCalled(k)
                     /\ ~(ClaimVerdict /\ result.details.problem_claim = Claims[k]))

\* C23 witness: the first claim has a maximum contradiction probability and a
\* maximum similarity at their thresholds and passes; the second has a maximum
\* entailment probability at its threshold, is not accepted and fails on
\* similarity.
C23_Witness ==
    /\ Returned
    /\ Len(Judgements) = 2
    /\ Judgements[1].sim = similarity_threshold
    /\ Judgements[1].ent < entailment_threshold
    /\ Judgements[2].ent = entailment_threshold
    /\ result.detection_method = "low_similarity"
    /\ result.details.problem_claim = Claims[2]

\* ---------------------------------------------------- the evidence retriever
\* Largest max_evidence_docs a caller passes; the Wikipedia retriever is built
\* with max_results = max_evidence_docs and returns no more documents.
MaxEvidenceDocs == 2

\* similarity_threshold as a caller may pass it: 0.0 and the default 0.5.
RetrieverThresholds == {0, 50}

\* page.content of the pages found: whitespace only, one sentence, two
\* sentences, five sentences.
WikipediaPages == {<<0>>, <<1>>, <<2, 0, 1>>, <<1, 2, 1, 2, 1>>}

\* Cosine similarities of a passage to the question.
PassageScores == {-20, 50, 80}

\* _chunk_document_sliding_window(doc, sentences_per_chunk=4, overlap=1)
sentences_per_chunk == 4
overlap == 1

Min(a, b) == IF a <= b THEN a ELSE b

\* list(all_docs.keys()): each document once, in the order first seen.
RECURSIVE Unique(_)
Unique(docs) ==
    IF docs = <<>> THEN <<>>
    ELSE LET before == Unique(SubSeq(docs, 1, Len(docs) - 1))
             last == docs[Len(docs)]
         IN  IF last \in Range(before) THEN before ELSE Append(before, last)

\* " ".join(chunk)
RECURSIVE JoinSentences(_)
JoinSentences(chunk) ==
    IF Len(chunk) <= 1 THEN chunk
    ELSE <<Head(chunk), 0>> \o JoinSentences(Tail(chunk))

\* Windows of sentences_per_chunk sentences that start every
\* sentences_per_chunk - overlap sentences.
chunk_document_sliding_window(doc) ==
    LET sentences == sent_tokenize(doc)
        step == sentences_per_chunk - overlap
        count == (Len(sentences) + step - 1) \div step
    IN  [k \in 1..count |->
            JoinSentences(SubSeq(sentences, step * (k - 1) + 1,
                                 Min(step * (k - 1) + sentences_per_chunk, Len(sentences))))]

\* for doc in unique_docs: all_passages.extend(passages)
RECURSIVE Passages(_)
Passages(docs) ==
    IF docs = <<>> THEN <<>>
    ELSE chunk_document_sliding_window(Head(docs)) \o Passages(Tail(docs))

\* _calculate_similarity: the cosine scores, or 0.0 for every document when
\* encode or cos_sim raised.
calculate_similarity(documents, scorer, raised) ==
    [k \in DOMAIN documents |-> IF raised THEN 0 ELSE scorer[documents[k]]]

\* list(zip(all_passages, similarities))
Zip(passages, similarities) == [k \in DOMAIN passages |-> <<passages[k], similarities[k]>>]

\* [(p, s) for p, s in passage_sim_pairs if s >= self.similarity_threshold]
Relevant(pairs, threshold) == SelectSeq(pairs, LAMBDA x : x[2] >= threshold)

\* One step of the stable descending sort: x goes before the first pair whose
\* score is not larger than its own.
RECURSIVE InsertByScore(_, _)
InsertByScore(x, sorted) ==
    IF sorted = <<>> THEN <<x>>
    ELSE IF Head(sorted)[2] > x[2] THEN <<Head(sorted)>> \o InsertByScore(x, Tail(sorted))
    ELSE <<x>> \o sorted

\* relevant_pairs.sort(key=lambda x: x[1], reverse=True): stable.
\* Faulty variant: the pairs are left in extraction order.
SortByScoreSkipped(pairs) == pairs
RECURSIVE SortByScore(_)
SortByScore(pairs) ==
    IF pairs = <<>> THEN <<>>
    ELSE InsertByScore(Head(pairs), SortByScore(Tail(pairs)))

\* [p for p, _ in relevant_pairs[:self.max_evidence_docs]]
FirstPassages(pairs, n) == [k \in 1..Min(n, Len(pairs)) |-> pairs[k][1]]

\* EvidenceRetriever.__init__: the parameters are stored; a failure to load
\* the embedding model is re-raised.
ConstructRetriever ==
    /\ ret_pc = "unbuilt"
    /\ \/ /\ ret_pc' = "raised"
          /\ UNCHANGED <<max_evidence_docs, retriever_similarity_threshold>>
       \/ /\ ret_pc' = "lookup"
          /\ \E n \in 1..MaxEvidenceDocs : max_evidence_docs' = n
          /\ \E t \in RetrieverThresholds : retriever_similarity_threshold' = t
    /\ UNCHANGED <<lookup_failed, unique_docs, all_passages, similarity_failed,
                   passage_similarity, final_evidence,
                   detVars, buildVars, gemVars, apiVars, repVars, insVars>>

\* Lines 72-83: the Wikipedia lookup returns documents or raises (caught);
\* without documents the empty list is returned.
WikipediaLookup ==
    /\ ret_pc = "lookup"
    /\ \/ lookup_failed' = TRUE /\ unique_docs' = <<>>
       \/ /\ lookup_failed' = FALSE
          /\ \E n \in 0..max_evidence_docs : \E docs \in [1..n -> WikipediaPages] :
                unique_docs' = Unique(docs)
    /\ ret_pc' = IF unique_docs' = <<>> THEN "done" ELSE "chunk"
    /\ UNCHANGED <<max_evidence_docs, retriever_similarity_threshold, all_passages,
                   similarity_failed, passage_similarity, final_evidence,
                   detVars, buildVars, gemVars, apiVars, repVars, insVars>>

\* Lines 84-90: the documents are cut into passages; without passages the
\* empty list is returned.
ChunkDocuments ==
    /\ ret_pc = "chunk"
    /\ all_passages' = Passages(unique_docs)
    /\ ret_pc' = IF all_passages' = <<>> THEN "done" ELSE "rerank"
    /\ UNCHANGED <<max_evidence_docs, retriever_similarity_threshold, lookup_failed,
                   unique_docs, similarity_failed, passage_similarity, final_evidence,
                   detVars, buildVars, gemVars, apiVars, repVars, insVars>>

\* Lines 92-101: the passages are scored, filtered by the threshold, sorted
\* by descending score and cut to max_evidence_docs.
RerankPassages ==
    /\ ret_pc = "rerank"
    /\ \E scorer \in [Range(all_passages) -> PassageScores] : \E raised \in BOOLEAN :
        LET similarities == calculate_similarity(all_passages, scorer, raised)
            relevant_pairs == Relevant(Zip(all_passages, similarities),
                                       retriever_similarity_threshold)
        IN  /\ passage_similarity' = scorer
            /\ similarity_failed' = raised
            /\ final_evidence' =
                   IF relevant_pairs = <<>> THEN <<>>
                   ELSE FirstPassages(SortByScore(relevant_pairs), max_evidence_docs)
    /\ ret_pc' = "done"
    /\ UNCHANGED <<max_evidence_docs, retriever_similarity_threshold, lookup_failed,
                   unique_docs, all_passages,
                   detVars, buildVars, gemVars, apiVars, repVars, insVars>>

InitRetrieval == DetectorIdle /\ ExtIdle

NextRetrieval ==
    \/ ConstructRetriever
    \/ WikipediaLookup
    \/ ChunkDocuments
    \/ RerankPassages

\* An EvidenceRetriever is constructed and retrieve_evidence is called on it.
SpecRetrieval == InitRetrieval /\ [][NextRetrieval]_vars

\* retrieve_evidence has returned.
Retrieved == ret_pc = "done"

\* The similarity of the k-th returned passage to the question.
ReturnedSimilarity(k) == passage_similarity[final_evidence[k]]

AboveThreshold ==
    \A k \in DOMAIN final_evidence :
        /\ final_evidence[k] \in Range(all_passages)
        /\ ReturnedSimilarity(k) >= retriever_similarity_threshold

NonIncreasing ==
    \A i, j \in DOMAIN final_evidence :
        (/\ i < j
         /\ final_evidence[i] \in DOMAIN passage_similarity
         /\ final_evidence[j] \in DOMAIN passage_similarity) =>
            ReturnedSimilarity(i) >= ReturnedSimilarity(j)

NoPassageMeetsThreshold ==
    /\ all_passages # <<>>
    /\ \A p \in Range(all_passages) : passage_similarity[p] < retriever_similarity_threshold

\* C29 as stated: at most max_evidence_docs passages are returned, each with
\* a similarity of at least the threshold, in non-increasing similarity
\* order; the empty list is returned when the lookup fails, when no passage
\* is extracted, when the similarity computation fails or when no passage
\* meets the threshold.
C29_RankedEvidenceOrNothing ==
    Retrieved =>
        /\ Len(final_evidence) <= max_evidence_docs
        /\ AboveThreshold
        /\ NonIncreasing
        /\ (\/ lookup_failed
            \/ all_passages = <<>>
            \/ similarity_failed
            \/ NoPassageMeetsThreshold) => final_evidence = <<>>

\* C29, amended: at most max_evidence_docs passages are returned; when the
\* similarity computation succeeds each has a similarity of at least the
\* threshold and they are in non-increasing similarity order; the empty list
\* is returned when the lookup fails, when no passage is extracted, when no
\* passage meets the threshold, and, for a positive threshold, when the
\* similarity computation fails.  When it fails under a threshold of 0.0 or
\* less every passage counts as scored 0.0 and the first max_evidence_docs
\* passages are returned in extraction order.
C29_RankedEvidenceUnlessScoringFailed ==
    Retrieved =>
        /\ Len(final_evidence) <= max_evidence_docs
        /\ ~similarity_failed => (AboveThreshold /\ NonIncreasing)
        /\ (\/ lookup_failed
            \/ all_passages = <<>>
            \/ similarity_failed /\ retriever_similarity_threshold > 0
            \/ ~similarity_failed /\ NoPassageMeetsThreshold) => final_evidence = <<>>
        /\ (similarity_failed /\ retriever_similarity_threshold <= 0) =>
            final_evidence =
                SubSeq(all_passages, 1, Min(max_evidence_docs, Len(all_passages)))

\* C29 witness: three passages meet the threshold 0.5, the second with the
\* highest score; it is returned first, the first passage second and the
\* third is cut off.
C29_Witness ==
    /\ Retrieved
    /\ ~similarity_failed
    /\ retriever_similarity_threshold = 50
    /\ max_evidence_docs = 2
    /\ Len(all_passages) = 3
    /\ \A p \in Range(all_passages) : passage_similarity[p] >= 50
    /\ final_evidence = <<all_passages[2], all_passages[1]>>
    /\ passage_similarity[all_passages[2]] > passage_similarity[all_passages[1]]

\* --------------------------------------------- the module-level generator
\* Calls of get_gemini_llm and of generate_answer(question) followed.
MaxModuleCalls == 3

\* if _gemini_llm_instance is None:
\* Faulty variant: the test always succeeds.
InstanceMissingAlways(instance) == TRUE
InstanceMissing(instance) == instance = 0

\* get_gemini_llm(): GeminiLLM() is constructed when no instance is stored;
\* the stored instance is returned.
get_gemini_llm ==
    /\ IF InstanceMissing(gemini_llm_instance)
       THEN \E err \in {"none", "no_key", "model", "test"} :
              /\ gem_load_error' = err
              /\ gem_model' = IF err \in {"none", "test"} THEN "set" ELSE "none"
              /\ api_working' = (err = "none")
              /\ gem_state' = GeminiConstructed(err)
              /\ constructions' = constructions + 1
              /\ gemini_llm_instance' =
                     IF gem_state' = "built" THEN constructions' ELSE gemini_llm_instance
       ELSE UNCHANGED <<gem_load_error, gem_model, api_working, gem_state, constructions,
                        gemini_llm_instance>>
    /\ instances_returned' = Append(instances_returned, gemini_llm_instance')
    /\ module_calls' = module_calls + 1

\* gemini_integration.py 103-108: one call of get_gemini_llm.
GetGeminiLLM ==
    /\ gem_pc = "idle"
    /\ module_calls < MaxModuleCalls
    /\ get_gemini_llm
    /\ UNCHANGED <<pipe_state, det_state, det_load_error, gemVars,
                   detVars, apiVars, repVars, retVars>>

\* gemini_integration.py 110-113: generate_answer(question) takes the
\* instance from get_gemini_llm and calls its generate_answer with the
\* default max_retries.
ModuleGenerateAnswer ==
    /\ gem_pc = "idle"
    /\ module_calls < MaxModuleCalls
    /\ get_gemini_llm
    /\ gen_calls' = gen_calls + 1
    /\ max_retries' = DefaultMaxRetries
    /\ attempt' = 0
    /\ outcomes' = <<>>
    /\ waits' = <<>>
    /\ last_exception' = "none"
    /\ IF ~api_working' \/ gem_model' = "none"
       THEN /\ gen_return' = [kind |-> "str", text |-> ErrorMessage]
            /\ gem_pc' = "idle"
       ELSE /\ gen_return' = NoReturn
            /\ gem_pc' = "loop"
    /\ UNCHANGED <<pipe_state, det_state, det_load_error,
                   detVars, apiVars, repVars, retVars>>

InitSingleton == DetectorIdle /\ ExtIdle

NextSingleton ==
    \/ GetGeminiLLM
    \/ ModuleGenerateAnswer
    \/ AnswerStep

\* Calls of get_gemini_llm and of the module-level generate_answer, one after
\* the other.
SpecSingleton == InitSingleton /\ [][NextSingleton]_vars

\* C30: over any sequence of calls of get_gemini_llm and of the module-level
\* generate_answer, GeminiLLM is constructed at most once, every call returns
\* the one instance, and once stored the instance is never replaced nor its
\* api_working changed, a fallback instance included.
C30_OneGeneratorInstance ==
    /\ [](/\ constructions <= 1
          /\ \A k \in DOMAIN instances_returned : instances_returned[k] = 1
          /\ Len(instances_returned) = module_calls
          /\ module_calls > 0 => (gemini_llm_instance = 1 /\ constructions = 1))
    /\ [][gemini_llm_instance # 0 =>
            /\ gemini_llm_instance' = gemini_llm_instance
            /\ gem_load_error' = gem_load_error
            /\ api_working' = api_working]_vars

\* C30 witness: the first construction ended in fallback mode; three calls,
\* of both kinds, were given the same instance.
C30_Witness ==
    /\ gem_load_error = "test"
    /\ ~api_working
    /\ module_calls = 3
    /\ instances_returned = <<1, 1, 1>>
    /\ gen_calls \in 1..2
    /\ constructions = 1

====
